---- MODULE Spec2Model ----
(***************************************************************************)
(* kernel-wasm: the control device (wd_open / wd_ioctl / wd_release), the  *)
(* run_code handshake between the ioctl caller (the controller) and the    *)
(* code_runner kernel thread (the worker), and the bounds check of         *)
(* vmctx_get_memory_slice.                                                 *)
(***************************************************************************)
EXTENDS Integers, Sequences, FiniteSets, TLC

VARIABLES
    (* vmctx_get_memory_slice: arguments and result of one call *)
    memories,      \* ctx->memories: whether it is NULL, and the local_memory it points to
    offset,        \* uint32_t offset
    len,           \* uint32_t len
    slice_pc,      \* "args" before the call, "returned" after it
    slice_ret,     \* the returned uint8_t *
    (* struct privileged_session and its execution_engine *)
    sess,          \* "open" after wd_open, "released" after wd_release
    ready,         \* sess->ready
    ee,            \* sess->ee: 0, or the number of the init_execution_engine call that built it
    code_x,        \* whether ee->code is mapped executable
    (* the task calling ioctl (the controller) *)
    pc,            \* position of the controller inside handle_wasm_run_code
    req,           \* struct run_code_request copied from the caller (param_count)
    made_nx,       \* int made_nx
    ret,           \* int ret (result of kthread_stop)
    sigpending,    \* signal_pending(current) of the controller
    retval,        \* what the last ioctl returned to its caller
    (* struct code_runner_task *)
    sem,           \* task.sem.count
    task_ret,      \* task.ret
    (* the code_runner kthread (the worker) *)
    wpc,           \* position of the worker
    exit_code,     \* what kthread_stop reports for the worker
    entry,         \* what the machine code at req.entry_offset does
    (* observation of one request *)
    dmesg,         \* what the handler printed about the run's result
    calls,         \* ee_call0 calls made for the current request
    stored,        \* whether the worker has written task.ret in this request
    signalled,     \* how often the worker has released "started" and "finished" in it
    sig_at,        \* where the controller was when the pending signal was sent
    last,          \* how the last finished ioctl went
    statuses,      \* the values returned so far by normal and by terminated runs
    init_calls,    \* calls of init_execution_engine so far
    destroy_calls, \* calls of destroy_execution_engine so far
    runs,          \* run_code requests that started a worker so far
    forced         \* how many of them went through forced termination

slice_vars == <<memories, offset, len, slice_pc, slice_ret>>
sess_vars == <<sess, ready, ee, code_x>>
ctl_vars == <<pc, req, made_nx, ret, sigpending, retval>>
task_vars == <<sem, task_ret>>
worker_vars == <<wpc, exit_code, entry>>
obs_vars ==
    <<dmesg, calls, stored, signalled, sig_at, last, statuses, init_calls,
      destroy_calls, runs, forced>>
vars == <<slice_vars, sess_vars, ctl_vars, task_vars, worker_vars, obs_vars>>

\* ------------------------------------------------------------------------
\* Machine integers.  unsigned long is 64 bits wide and uint32_t 32 bits;
\* a value is kept as its 16-bit limbs, least significant first, so that
\* the arithmetic below is the machine's, wrap-around included.
\* ------------------------------------------------------------------------

Limb == 2^16

\* (unsigned long) x for a uint32_t x: zero extension
ULong(x) == <<x[1], x[2], 0, 0>>

\* an unsigned long / a uint32_t of small value n (n < Limb)
UL(n) == <<n, 0, 0, 0>>
U32(n) == <<n, 0>>

\* the carries of a + b, limb by limb
AddCarry(a, b) ==
    LET c1 == (a[1] + b[1]) \div Limb
        c2 == (a[2] + b[2] + c1) \div Limb
        c3 == (a[3] + b[3] + c2) \div Limb
        c4 == (a[4] + b[4] + c3) \div Limb
    IN  <<c1, c2, c3, c4>>

\* a + b on unsigned long: modulo 2^64
AddUL(a, b) ==
    LET c == AddCarry(a, b)
    IN  <<(a[1] + b[1]) % Limb,
          (a[2] + b[2] + c[1]) % Limb,
          (a[3] + b[3] + c[2]) % Limb,
          (a[4] + b[4] + c[3]) % Limb>>

\* whether the mathematical sum a + b does not fit in an unsigned long
Overflows(a, b) == AddCarry(a, b)[4] = 1

\* a < b on unsigned long
LtUL(a, b) ==
    \/ a[4] < b[4]
    \/ a[4] = b[4] /\ a[3] < b[3]
    \/ a[4] = b[4] /\ a[3] = b[3] /\ a[2] < b[2]
    \/ a[4] = b[4] /\ a[3] = b[3] /\ a[2] = b[2] /\ a[1] < b[1]

LeUL(a, b) == a = b \/ LtUL(a, b)

NULL == UL(0)

\* ------------------------------------------------------------------------
\* vmctx_get_memory_slice (vm.h)
\* ------------------------------------------------------------------------

\* line 104 without its first test, end < begin
vmctx_get_memory_slice_NoWrapTest(ctx_memories, off, n) ==
    IF ctx_memories.null THEN NULL
    ELSE LET mem == ctx_memories.mem
             begin == AddUL(mem.base, ULong(off))
             end == AddUL(begin, ULong(n))
             real_end == AddUL(mem.base, mem.bound)
         IN  IF \/ LtUL(begin, mem.base)
                \/ LeUL(real_end, begin)
                \/ LtUL(real_end, end)
             THEN NULL
             ELSE begin

vmctx_get_memory_slice(ctx_memories, off, n) ==
    IF ctx_memories.null THEN NULL
    ELSE LET mem == ctx_memories.mem
             begin == AddUL(mem.base, ULong(off))
             end == AddUL(begin, ULong(n))
             real_end == AddUL(mem.base, mem.bound)
         IN  IF \/ LtUL(end, begin)
                \/ LtUL(begin, mem.base)
                \/ LeUL(real_end, begin)
                \/ LtUL(real_end, end)
             THEN NULL
             ELSE begin

\* --- the arguments the call is tried on ---------------------------------

\* how many values are taken next to 0 and next to the largest value
Near == 1

\* uint32_t values next to 0 and next to UINT32_MAX
U32Near ==
    {U32(k) : k \in 0..Near} \cup {<<Limb - 1 - k, Limb - 1>> : k \in 0..Near}

\* bounds that meet, or miss by one, the sum of two such values
BoundNear ==
    {AddUL(AddUL(ULong(o), ULong(l)), UL(d)) : o \in U32Near, l \in U32Near, d \in 0..1}

\* base addresses: low in the address space, and within 2^32 of its top
BaseNear ==
    {<<0, 1, 0, 0>>} \cup {<<k, 0, Limb - 1, Limb - 1>> : k \in 0..(Near + 1)}

\* a local_memory: a buffer of bound bytes at a non-null base that lies in
\* the address space
Regions ==
    {m \in [base : BaseNear, bound : BoundNear] : ~Overflows(m.base, m.bound)}

NoMemories == [null |-> TRUE, mem |-> [base |-> NULL, bound |-> UL(0)]]

SliceInit ==
    /\ memories \in {NoMemories} \cup {[null |-> FALSE, mem |-> m] : m \in Regions}
    /\ offset \in U32Near
    /\ len \in U32Near
    /\ slice_pc = "args"
    /\ slice_ret = NULL

SliceIdle ==
    /\ memories = NoMemories
    /\ offset = U32(0)
    /\ len = U32(0)
    /\ slice_pc = "args"
    /\ slice_ret = NULL

CallSlice ==
    /\ slice_pc = "args"
    /\ slice_ret' = vmctx_get_memory_slice(memories, offset, len)
    /\ slice_pc' = "returned"
    /\ UNCHANGED <<memories, offset, len>>
    /\ UNCHANGED <<sess_vars, ctl_vars, task_vars, worker_vars, obs_vars>>

\* ------------------------------------------------------------------------
\* The session, the controller and the worker
\* ------------------------------------------------------------------------

\* bounds of the requests tried
\* calls of init_execution_engine per session
MaxInits == 2
\* run_code requests per session that start a worker
MaxRuns == 2
\* largest param_count tried
MaxParam == 1
\* largest value an entry function returns
MaxVal == 2

\* errno values of the failure returns
EINVAL == 22
EFAULT == 14
ENOMEM == 12

Vals == 0..MaxVal
\* struct run_code_request; its entry_offset is kept as what the code at
\* that offset does (entry)
Requests == [param_count : 0..MaxParam]

\* what the machine code at an entry offset does when called: it returns a
\* value, or it never returns
Entries == [kind : {"ret"}, val : Vals] \cup {[kind |-> "loop", val |-> 0]}

NoMsg == [msg |-> "none", val |-> 0]

NoneSignalled == [started |-> 0, finished |-> 0]

\* the handler returns v to the caller of ioctl, having gone the way `how`
Return(how, v) ==
    /\ retval' = v
    /\ last' = how
    /\ statuses' = IF how \in DOMAIN statuses
                   THEN [statuses EXCEPT ![how] = @ \cup {v}]
                   ELSE statuses

\* vm.h, init_privileged_session (called by wd_open)
init_privileged_session == ready = 0

MainInit ==
    /\ sess = "open"
    /\ init_privileged_session
    /\ ee = 0
    /\ code_x = FALSE
    /\ pc = "user"
    /\ req = [param_count |-> 0]
    /\ made_nx = 0
    /\ ret = 0
    /\ sigpending = FALSE
    /\ retval = 0
    /\ sem = 0
    /\ task_ret = 0
    /\ wpc = "none"
    /\ exit_code = 0
    /\ entry = [kind |-> "ret", val |-> 0]
    /\ dmesg = NoMsg
    /\ calls = 0
    /\ stored = FALSE
    /\ signalled = NoneSignalled
    /\ sig_at = "none"
    /\ last = "none"
    /\ statuses = [run_normal |-> {}, run_forced |-> {}]
    /\ init_calls = 0
    /\ destroy_calls = 0
    /\ runs = 0
    /\ forced = 0

Init == MainInit /\ SliceIdle

\* --- vm.h ---------------------------------------------------------------

\* set_memory_nx left out
ee_make_code_nx_Skipped == code_x' = code_x

ee_make_code_nx == code_x' = FALSE

\* set_memory_x left out
ee_make_code_x_Skipped == code_x' = code_x

ee_make_code_x == code_x' = TRUE

\* init_execution_engine: builds the engine of the load numbered id and
\* leaves its code executable, or fails with err < 0 and leaves nothing
InitResults == {0, -EINVAL, -ENOMEM}

init_execution_engine(err, id) ==
    /\ init_calls' = init_calls + 1
    /\ IF err < 0
       THEN UNCHANGED <<ee, code_x>>
       ELSE ee' = id /\ code_x' = TRUE

destroy_execution_engine ==
    /\ destroy_calls' = destroy_calls + 1
    /\ ee' = 0
    /\ code_x' = FALSE

\* --- wd_release ---------------------------------------------------------

\* The file is released when its last reference is dropped; an ioctl in
\* progress holds one.
\* line 106 without its test
release_ready_Always == TRUE

\* line 106
release_ready == ready # 0

wd_release ==
    /\ sess = "open"
    /\ pc = "user"
    /\ IF release_ready
       THEN destroy_execution_engine
       ELSE UNCHANGED <<ee, code_x, destroy_calls>>
    /\ sess' = "released"
    /\ UNCHANGED <<ready, ctl_vars, task_vars, worker_vars, slice_vars>>
    /\ UNCHANGED <<dmesg, calls, stored, signalled, sig_at>>
    /\ UNCHANGED <<last, statuses, init_calls, runs, forced>>

\* --- handle_wasm_load_code ----------------------------------------------

\* line 129 without its test
load_already_Never == FALSE

\* line 129
load_already == ready # 0

\* the fail label with line 151 moved above the jumps to it
load_fail_SetsReady(how, err) ==
    /\ Return(how, err)
    /\ ready' = 1

\* lines 154-155: the fail label returns err and leaves sess->ready alone
load_fail(how, err) ==
    /\ Return(how, err)
    /\ UNCHANGED ready

handle_wasm_load_code ==
    /\ sess = "open"
    /\ pc = "user"
    /\ \E copy_ok \in BOOLEAN, err \in InitResults :
         IF load_already
         THEN /\ load_fail("load_already", -EINVAL)
              /\ UNCHANGED <<ee, code_x, init_calls>>
         ELSE IF ~copy_ok
         THEN /\ load_fail("load_efault", -EFAULT)
              /\ UNCHANGED <<ee, code_x, init_calls>>
         ELSE /\ init_calls < MaxInits
              /\ init_execution_engine(err, init_calls + 1)
              /\ IF err < 0
                 THEN load_fail("load_initfail", err)
                 ELSE Return("load_ok", 0) /\ ready' = 1
    /\ UNCHANGED <<sess, pc, req, made_nx, ret, sigpending>>
    /\ UNCHANGED <<task_vars, worker_vars, slice_vars>>
    /\ UNCHANGED <<dmesg, calls, stored, signalled, sig_at, destroy_calls, runs, forced>>

\* --- code_runner and code_runner_inner: the worker ----------------------

\* what no step of the worker changes
worker_frame ==
    /\ UNCHANGED <<sess_vars, ctl_vars, slice_vars>>
    /\ UNCHANGED <<dmesg, sig_at, last, statuses, init_calls, destroy_calls, runs, forced>>

\* code_runner_inner without line 167
inner_up_started_Skipped ==
    /\ wpc = "up_started"
    /\ wpc' = "check"
    /\ UNCHANGED <<sem, signalled, task_ret, exit_code, entry, calls, stored>>
    /\ worker_frame

\* line 167: up(&task->sem), "started"
inner_up_started ==
    /\ wpc = "up_started"
    /\ sem' = sem + 1
    /\ signalled' = [signalled EXCEPT !.started = @ + 1]
    /\ wpc' = "check"
    /\ UNCHANGED <<task_ret, exit_code, entry, calls, stored>>
    /\ worker_frame

\* line 168 without its test
inner_bad_params_Never == FALSE

\* line 168
inner_bad_params == req.param_count # 0

\* lines 168-170
inner_check ==
    /\ wpc = "check"
    /\ wpc' = IF inner_bad_params THEN "terminated" ELSE "call"
    /\ UNCHANGED <<sem, task_ret, exit_code, entry, calls, stored>>
    /\ UNCHANGED signalled
    /\ worker_frame

\* line 171: control enters the code at entry_offset
ee_call0_enter ==
    /\ wpc = "call"
    /\ wpc' = "in_call"
    /\ calls' = calls + 1
    /\ UNCHANGED <<sem, task_ret, exit_code, entry, stored>>
    /\ UNCHANGED signalled
    /\ worker_frame

\* line 171: the entry function returns and its value is stored
ee_call0_return ==
    /\ wpc = "in_call"
    /\ code_x
    /\ entry.kind = "ret"
    /\ task_ret' = entry.val
    /\ stored' = TRUE
    /\ wpc' = "up_finished"
    /\ UNCHANGED <<sem, exit_code, entry, calls>>
    /\ UNCHANGED signalled
    /\ worker_frame

\* An instruction fetch from the code buffer while it is not executable
\* faults and the kernel ends the thread; what kthread_stop then reports is
\* the exit code of the fault or, where only a returning thread function
\* records a result, 0.
ee_call0_fault ==
    /\ wpc = "in_call"
    /\ ~code_x
    /\ wpc' = "exited"
    /\ exit_code' \in {0, 1}
    /\ UNCHANGED <<sem, task_ret, entry, calls, stored>>
    /\ UNCHANGED signalled
    /\ worker_frame

\* line 172: up(&task->sem), "finished"
inner_up_finished ==
    /\ wpc = "up_finished"
    /\ sem' = sem + 1
    /\ signalled' = [signalled EXCEPT !.finished = @ + 1]
    /\ wpc' = "terminated"
    /\ UNCHANGED <<task_ret, exit_code, entry, calls, stored>>
    /\ worker_frame

code_runner_inner ==
    \/ inner_up_started
    \/ inner_check
    \/ ee_call0_enter
    \/ ee_call0_return
    \/ inner_up_finished

\* lines 186-189: the coroutine has terminated and the thread returns 0
code_runner_return ==
    /\ wpc = "terminated"
    /\ wpc' = "exited"
    /\ exit_code' = 0
    /\ UNCHANGED <<sem, task_ret, entry, calls, stored>>
    /\ UNCHANGED signalled
    /\ worker_frame

code_runner ==
    \/ code_runner_inner
    \/ code_runner_return
    \/ ee_call0_fault

\* --- handle_wasm_run_code: the controller -------------------------------

\* line 204 without its test
run_not_ready_Never == FALSE

\* line 204
run_not_ready == ready = 0

\* lines 194-218: from the entry of the handler to wake_up_process
run_request ==
    /\ sess = "open"
    /\ pc = "user"
    /\ runs < MaxRuns
    /\ \E copy_ok \in BOOLEAN, r \in Requests, thread_ok \in BOOLEAN, e \in Entries :
         IF ~copy_ok
         THEN /\ Return("run_efault", -EFAULT)
              /\ UNCHANGED <<pc, req, ret, task_vars, worker_vars>>
              /\ UNCHANGED <<dmesg, calls, stored, signalled, runs>>
         ELSE /\ req' = r
              /\ dmesg' = NoMsg
              /\ calls' = 0
              /\ stored' = FALSE
              /\ signalled' = NoneSignalled
              /\ IF run_not_ready
                 THEN /\ Return("run_notready", -EINVAL)
                      /\ UNCHANGED <<pc, ret, task_vars, worker_vars, runs>>
                 ELSE /\ sem' = 0
                      /\ UNCHANGED task_ret
                      /\ IF ~thread_ok
                         THEN /\ Return("run_nothread", -EINVAL)
                              /\ UNCHANGED <<pc, ret, worker_vars, runs>>
                         ELSE /\ wpc' = "up_started"
                              /\ exit_code' = 0
                              /\ entry' = e
                              /\ pc' = "down"
                              /\ runs' = runs + 1
                              /\ ret' = 0
                              /\ retval' = 0
                              /\ last' = "running"
                              /\ UNCHANGED statuses
    /\ made_nx' = 0
    /\ UNCHANGED <<sess_vars, sigpending, slice_vars>>
    /\ UNCHANGED <<sig_at, init_calls, destroy_calls, forced>>

\* what no step of the handler after wake_up_process changes
run_frame ==
    /\ UNCHANGED <<sess, ready, ee, req, task_ret, exit_code, entry>>
    /\ UNCHANGED <<calls, stored, signalled, init_calls, destroy_calls, runs>>
    /\ UNCHANGED slice_vars

\* line 220 with down_interruptible in the place of down
run_down_Interruptible ==
    /\ pc = "down"
    /\ \/ sem > 0 /\ sem' = sem - 1 /\ pc' = "down_interruptible"
       \/ sem = 0 /\ sigpending /\ sem' = sem /\ pc' = "make_nx"
    /\ UNCHANGED <<code_x, made_nx, ret, sigpending, retval, wpc>>
    /\ UNCHANGED <<dmesg, sig_at, last, statuses, forced>>
    /\ run_frame

\* line 220: down(&task.sem), the wait for "started"
run_down ==
    /\ pc = "down"
    /\ sem > 0
    /\ sem' = sem - 1
    /\ pc' = "down_interruptible"
    /\ UNCHANGED <<code_x, made_nx, ret, sigpending, retval, wpc>>
    /\ UNCHANGED <<dmesg, sig_at, last, statuses, forced>>
    /\ run_frame

\* line 222: down_interruptible(&task.sem), the wait for "finished"; it
\* takes the count if there is one, and else sleeps until there is one or
\* a signal is pending
run_down_interruptible ==
    /\ pc = "down_interruptible"
    /\ \/ sem > 0 /\ sem' = sem - 1 /\ pc' = "kthread_stop"
       \/ sem = 0 /\ sigpending /\ sem' = sem /\ pc' = "make_nx"
    /\ UNCHANGED <<code_x, made_nx, ret, sigpending, retval, wpc>>
    /\ UNCHANGED <<dmesg, sig_at, last, statuses, forced>>
    /\ run_frame

\* lines 224-225 without made_nx = 1
run_make_nx_NoFlag ==
    /\ pc = "make_nx"
    /\ ee_make_code_nx
    /\ made_nx' = made_nx
    /\ pc' = "kthread_stop"
    /\ UNCHANGED <<sem, ret, sigpending, retval, wpc>>
    /\ UNCHANGED <<dmesg, sig_at, last, statuses, forced>>
    /\ run_frame

\* lines 224-225
run_make_nx ==
    /\ pc = "make_nx"
    /\ ee_make_code_nx
    /\ made_nx' = 1
    /\ pc' = "kthread_stop"
    /\ UNCHANGED <<sem, ret, sigpending, retval, wpc>>
    /\ UNCHANGED <<dmesg, sig_at, last, statuses, forced>>
    /\ run_frame

\* line 232: task.ret is a field of a local struct that only the worker
\* writes; read before that, it holds whatever the stack held
read_task_ret == IF stored THEN {task_ret} ELSE Vals

\* lines 228-235 with a kthread_stop that does not wait for the worker
run_kthread_stop_NoWait ==
    /\ pc = "kthread_stop"
    /\ ret' = exit_code
    /\ IF exit_code # 0
       THEN dmesg' = [msg |-> "bad", val |-> exit_code]
       ELSE \E v \in read_task_ret : dmesg' = [msg |-> "result", val |-> v]
    /\ pc' = "drain"
    /\ UNCHANGED <<code_x, sem, made_nx, sigpending, retval, wpc>>
    /\ UNCHANGED <<sig_at, last, statuses, forced>>
    /\ run_frame

\* lines 228-235: kthread_stop returns once the worker has exited
run_kthread_stop ==
    /\ pc = "kthread_stop"
    /\ wpc = "exited"
    /\ ret' = exit_code
    /\ IF exit_code # 0
       THEN dmesg' = [msg |-> "bad", val |-> exit_code]
       ELSE \E v \in read_task_ret : dmesg' = [msg |-> "result", val |-> v]
    /\ wpc' = "none"
    /\ pc' = "drain"
    /\ UNCHANGED <<code_x, sem, made_nx, sigpending, retval>>
    /\ UNCHANGED <<sig_at, last, statuses, forced>>
    /\ run_frame

\* line 236 left out
run_drain_Skipped ==
    /\ pc = "drain"
    /\ sem' = sem
    /\ pc' = "make_x"
    /\ UNCHANGED <<code_x, made_nx, ret, sigpending, retval, wpc>>
    /\ UNCHANGED <<dmesg, sig_at, last, statuses, forced>>
    /\ run_frame

\* line 236: one round of while(down_trylock(&task.sem) == 0)
run_drain ==
    /\ pc = "drain"
    /\ IF sem > 0
       THEN sem' = sem - 1 /\ pc' = "drain"
       ELSE sem' = sem /\ pc' = "make_x"
    /\ UNCHANGED <<code_x, made_nx, ret, sigpending, retval, wpc>>
    /\ UNCHANGED <<dmesg, sig_at, last, statuses, forced>>
    /\ run_frame

\* lines 237-240; a pending signal is delivered on the way back to user mode
run_return ==
    /\ pc = "make_x"
    /\ IF made_nx # 0
       THEN ee_make_code_x /\ Return("run_forced", 0)
       ELSE UNCHANGED code_x /\ Return("run_normal", 0)
    /\ forced' = forced + made_nx
    /\ pc' = "user"
    /\ sigpending' = FALSE
    /\ sig_at' = "none"
    /\ UNCHANGED <<sem, made_nx, ret, wpc, dmesg>>
    /\ run_frame

handle_wasm_run_code ==
    \/ run_request
    \/ run_down
    \/ run_down_interruptible
    \/ run_make_nx
    \/ run_kthread_stop
    \/ run_drain
    \/ run_return

\* a signal is sent to the controller while it is inside the handler
send_signal ==
    /\ pc # "user"
    /\ ~sigpending
    /\ sigpending' = TRUE
    /\ sig_at' = pc
    /\ UNCHANGED <<pc, req, made_nx, ret, retval>>
    /\ UNCHANGED <<sess_vars, task_vars, worker_vars, slice_vars>>
    /\ UNCHANGED <<dmesg, calls, stored, signalled, last, statuses>>
    /\ UNCHANGED <<init_calls, destroy_calls, runs, forced>>

\* --- wd_ioctl -----------------------------------------------------------

wd_ioctl ==
    \/ handle_wasm_load_code
    \/ handle_wasm_run_code

Next ==
    \/ wd_ioctl
    \/ code_runner
    \/ send_signal
    \/ wd_release

Spec == Init /\ [][Next]_vars

\* The scheduler runs a runnable kernel thread and a runnable caller: a
\* step of the worker, or of the controller inside the handler, that stays
\* possible is taken.  Whether a request or a signal arrives is up to the
\* caller.
run_step ==
    /\ pc # "user"
    /\ handle_wasm_run_code

FairSpec == Init /\ [][Next]_vars /\ WF_vars(run_step) /\ WF_vars(code_runner)

\* vmctx_get_memory_slice called once on each choice of arguments
SliceNext == CallSlice

SliceStart == SliceInit /\ MainInit

SliceSpec == SliceStart /\ [][SliceNext]_vars

\* ------------------------------------------------------------------------
\* Properties
\* ------------------------------------------------------------------------

\* offset + len as 64-bit values (two 32-bit values: the sum cannot wrap)
SliceEnd == AddUL(ULong(offset), ULong(len))

SliceReturned == slice_pc = "returned" /\ ~memories.null

\* C1 as stated: for every offset, len and memory region,
\* vmctx_get_memory_slice returns a non-null pointer if and only if
\* offset + len <= bound, a zero-length slice at offset = bound included.
C1_NonNullIffWithinBound ==
    SliceReturned =>
        (slice_ret # NULL <=> LeUL(SliceEnd, memories.mem.bound))

\* C2 as stated: a run with param_count = 0 whose wait for "finished" was
\* not interrupted returns to its caller the value the entry function
\* returned.
C2_NormalRunReturnsResult ==
    (pc = "user" /\ last = "run_normal" /\ req.param_count = 0) =>
        retval = entry.val

\* C3 as stated: a run_code request with a nonzero param_count on a Ready
\* session returns the InvalidRequest error to its caller.
C3_NonzeroParamsRejected ==
    (pc = "user" /\ last \in {"run_normal", "run_forced", "run_nothread"}
        /\ req.param_count # 0) =>
        retval = -EINVAL

\* C4: while and after a request with a nonzero param_count is served, no
\* ee_call0 call has been made for it and the worker is not at, in or past
\* the call.
C4_NoCallWithParams ==
    req.param_count # 0 =>
        /\ calls = 0
        /\ wpc \notin {"call", "in_call", "up_finished"}
        /\ ~stored

\* C4 witness: a request with a nonzero param_count has been served to its
\* end by a worker.
C4_Witness ==
    /\ pc = "user"
    /\ last = "run_forced"
    /\ req.param_count # 0
    /\ calls = 0

\* C5: once the wait for "finished" has been interrupted, run_code returns.
C5_InterruptedRunReturns == (pc = "make_nx") ~> (pc = "user")

\* C5 witness: the wait is interrupted while the entry function, which
\* never returns, is running.
C5_Witness ==
    /\ pc = "make_nx"
    /\ wpc = "in_call"
    /\ entry.kind = "loop"

\* C6: when run_code returns after its worker ran, the semaphore's count is
\* zero; the worker is gone before the drain begins, so nothing is released
\* after it.
C6_HandshakeDrained ==
    /\ (pc = "user" /\ last \in {"run_normal", "run_forced"}) => sem = 0
    /\ pc \in {"drain", "make_x"} => wpc = "none"
    /\ pc = "make_x" => sem = 0

\* C6 witness: a run returned through forced termination although its
\* entry function returned, so "finished" was released after the wait for
\* it had been given up.
C6_Witness ==
    /\ pc = "user"
    /\ last = "run_forced"
    /\ stored
    /\ sem = 0

\* a run that follows a forced termination has started, with a
\* zero-parameter entry function that returns
RunAfterForced ==
    /\ forced > 0
    /\ pc = "down"
    /\ req.param_count = 0
    /\ entry.kind = "ret"

\* "finished" was taken by the controller's wait, the result being stored
FinishedObserved ==
    /\ pc = "kthread_stop"
    /\ made_nx = 0
    /\ stored

\* C7: after a run that went through forced termination has returned, the
\* code is executable and the session Ready; and a following run of a
\* zero-parameter entry function that returns has its "finished" taken by
\* the controller's wait, unless a signal arrives during that run.
C7_UsableAfterForced ==
    /\ []((pc = "user" /\ last = "run_forced" /\ sess = "open") =>
            (code_x /\ ready = 1))
    /\ RunAfterForced ~> (FinishedObserved \/ sigpending)

\* C7 witness: in a run after a forced termination the controller has taken
\* "finished" without being interrupted.
C7_Witness == forced > 0 /\ FinishedObserved

\* C8 as stated: the value returned by a run that went through forced
\* termination differs from every value returned by a normally completed
\* run.
C8_TerminatedIsDistinct ==
    \A t \in statuses.run_forced : t \notin statuses.run_normal

\* C9: a load_code on a Ready session fails with -EINVAL, does not call
\* init_execution_engine and leaves the ready flag and the engine as they
\* are.
C9_SecondLoadFails ==
    [][(handle_wasm_load_code /\ ready # 0) =>
        /\ retval' = -EINVAL
        /\ init_calls' = init_calls
        /\ ready' = ready
        /\ ee' = ee
        /\ code_x' = code_x]_vars

\* C9 witness: a load_code was refused on a Ready session.
C9_Witness == pc = "user" /\ last = "load_already" /\ ready = 1 /\ ee # 0

\* C10: a run_code on a session that is not Ready fails, starts no worker,
\* touches neither the semaphore nor the code's permissions and leaves the
\* session not Ready.
C10_RunBeforeLoadFails ==
    [][(run_request /\ ready = 0) =>
        /\ retval' < 0
        /\ pc' = "user"
        /\ wpc' = wpc
        /\ runs' = runs
        /\ sem' = sem
        /\ code_x' = code_x
        /\ ready' = 0]_vars

\* C10 witness: a run_code was refused on a session that is not Ready.
C10_Witness == pc = "user" /\ last = "run_notready" /\ ready = 0

\* --- C11 ------------------------------------------------------------------

LoadFailures == {"load_efault", "load_initfail"}

\* C11: after a load_code request that failed, because its request could not
\* be copied or because init_execution_engine returned an error, the session
\* is still unloaded (ready is 0 and the status is negative); an unloaded
\* session has started no worker, made no call and is released without
\* destroy_execution_engine; and a further load_code can make it ready.
C11_FailedLoadStaysUnloaded ==
    /\ last \in LoadFailures => ready = 0 /\ retval < 0
    /\ ready = 0 => runs = 0 /\ calls = 0 /\ wpc = "none" /\ destroy_calls = 0
    /\ (last \in LoadFailures /\ sess = "open" /\ init_calls < MaxInits)
         => ENABLED (handle_wasm_load_code /\ ready' = 1)

\* a load_code succeeded after an earlier init_execution_engine had failed
C11_Witness ==
    /\ last = "load_ok"
    /\ ready = 1
    /\ init_calls >= 2

\* --- C12 ------------------------------------------------------------------

\* the error kind a finished request stands for; "none" for a request that
\* reported no error of the handlers' own
ErrorKind(how) ==
    CASE how = "load_already" -> "AlreadyLoaded"
      [] how = "run_notready" -> "NotReady"
      [] how = "run_nothread" -> "WorkerStartFailure"
      [] how \in {"load_efault", "run_efault"} -> "InvalidRequest"
      [] how = "run_forced" -> "Terminated"
      [] OTHER -> "none"

\* C12: two requests that end one after the other with different error
\* kinds return different status values.
C12_DistinctStatusPerKind ==
    [][(/\ ErrorKind(last) # "none"
        /\ ErrorKind(last') # "none"
        /\ ErrorKind(last') # ErrorKind(last))
          => retval' # retval]_vars

\* --- C13 ------------------------------------------------------------------

\* C13: a call with a null memories pointer returns null; a non-null pointer
\* p returned for (offset, len) has base <= p, p + len does not pass the end
\* of the address space, and p + len <= base + bound.
C13_SliceInsideRegion ==
    slice_pc = "returned" =>
        /\ memories.null => slice_ret = NULL
        /\ slice_ret # NULL =>
              /\ ~memories.null
              /\ LeUL(memories.mem.base, slice_ret)
              /\ ~Overflows(slice_ret, ULong(len))
              /\ LeUL(AddUL(slice_ret, ULong(len)),
                      AddUL(memories.mem.base, memories.mem.bound))

\* a slice of at least one byte was granted in a region within 2^32 of the
\* top of the address space
C13_Witness ==
    /\ slice_pc = "returned"
    /\ slice_ret # NULL
    /\ len # U32(0)
    /\ memories.mem.base[4] = Limb - 1

\* --- C14 ------------------------------------------------------------------

\* C14: in every run the worker releases "started" at most once and before
\* control enters the entry function; it releases "finished" at most once,
\* after "started", after the one call has returned and after the returned
\* value has been stored in task.ret.
C14_WorkerSignalOrder ==
    /\ signalled.started <= 1
    /\ signalled.finished <= 1
    /\ calls > 0 => signalled.started = 1
    /\ wpc \in {"call", "in_call", "up_finished"} =>
          signalled.started = 1 /\ signalled.finished = 0
    /\ wpc = "in_call" => ~stored
    /\ signalled.finished = 1 =>
          /\ signalled.started = 1
          /\ calls = 1
          /\ stored
          /\ task_ret = entry.val
          /\ wpc \in {"terminated", "exited", "none"}

\* a worker has released both signals around a call that returned
C14_Witness ==
    /\ signalled = [started |-> 1, finished |-> 1]
    /\ stored
    /\ wpc = "terminated"

\* --- C15 ------------------------------------------------------------------

\* a run_code request passes its checks and starts its worker
WorkerCreated == pc = "user" /\ pc' = "down"

\* C15: no worker exists while no run_code request is in progress, so the
\* worker of a run has exited and has been collected when run_code returns;
\* a request that passes its checks creates one worker, at a time when none
\* exists; and workers are created by such requests only.
C15_OneWorkerPerRun ==
    /\ [](pc = "user" => wpc = "none")
    /\ [][WorkerCreated => wpc = "none" /\ wpc' = "up_started" /\ runs' = runs + 1]_vars
    /\ [][(runs' # runs \/ (wpc = "none" /\ wpc' # "none")) => WorkerCreated]_vars

\* a second run has returned after its worker was collected
C15_Witness ==
    /\ runs >= 2
    /\ pc = "user"
    /\ last \in {"run_normal", "run_forced"}
    /\ wpc = "none"

\* --- C16 ------------------------------------------------------------------

\* C16: while a run_code request is in progress the permission of the code
\* buffer changes only in two steps of the controller: it is revoked at
\* lines 224-225, reached with a signal pending, and restored at line 238,
\* taken when it was revoked. Until it is revoked the code stays executable,
\* from then to the restoring step it is not, and the request returns with
\* executable code, changed in that step exactly when it had been revoked.
C16_PermissionByController ==
    /\ []((pc # "user" /\ made_nx = 0) => code_x)
    /\ []((pc \in {"kthread_stop", "drain", "make_x"} /\ made_nx = 1) => ~code_x)
    /\ [](pc = "make_nx" => sigpending)
    /\ [][(pc # "user" /\ code_x' # code_x) =>
            \/ pc = "make_nx" /\ pc' = "kthread_stop" /\ ~code_x' /\ made_nx' = 1
            \/ pc = "make_x" /\ pc' = "user" /\ code_x' /\ made_nx = 1]_vars
    /\ [][(pc = "make_x" /\ pc' = "user") =>
            code_x' /\ (code_x' # code_x <=> made_nx = 1)]_vars

\* after a run that returned normally, a later run has had the permission
\* revoked and is about to restore it
C16_Witness ==
    /\ pc = "make_x"
    /\ made_nx = 1
    /\ ~code_x
    /\ statuses.run_normal # {}

\* --- C17 ------------------------------------------------------------------

\* C17: once sess->ready is set it stays set, also through release; a
\* session that is ready calls init_execution_engine no more; and an engine
\* comes into being only in the step that takes the session from unloaded
\* to ready, so that init_execution_engine succeeds at most once per session.
C17_ReadyOnce ==
    /\ [][ready # 0 => ready' = ready /\ init_calls' = init_calls]_vars
    /\ [][(ee' # ee /\ ee' # 0) => ready = 0 /\ ready' = 1]_vars
    /\ [][ready' # ready => handle_wasm_load_code /\ retval' = 0]_vars

\* a ready session has refused a second load_code and is still ready
C17_Witness ==
    /\ ready = 1
    /\ last = "load_already"
    /\ runs >= 1
    /\ ee # 0

\* --- C18 ------------------------------------------------------------------

\* C18: a session that is open has not been torn down; a released session
\* has had destroy_execution_engine called once if it was ready and not at
\* all if it was unloaded; and the call is made in the release step only,
\* with no worker in existence and no run_code request in progress.
C18_TeardownOnce ==
    /\ [](sess = "open" => destroy_calls = 0)
    /\ [](sess = "released" => destroy_calls = (IF ready # 0 THEN 1 ELSE 0))
    /\ [](sess = "released" => pc = "user" /\ wpc = "none")
    /\ [][destroy_calls' # destroy_calls =>
            /\ sess = "open" /\ sess' = "released"
            /\ ready # 0
            /\ pc = "user"
            /\ wpc = "none"
            /\ destroy_calls' = destroy_calls + 1]_vars

\* a ready session was released after a run of it had been terminated
C18_Witness ==
    /\ sess = "released"
    /\ destroy_calls = 1
    /\ forced >= 1

\* --- C19 ------------------------------------------------------------------

\* C19: when the controller has printed task.ret as the result of a run
\* (line 232), the worker of that run had stored the entry function's
\* return value in it and released "finished".
C19_ReadsOnlyStoredResult ==
    dmesg.msg = "result" => stored /\ signalled.finished = 1

\* --- C20 ------------------------------------------------------------------

\* C20: the controller is past its first wait only when the worker has
\* released "started"; until then, whether or not a signal is pending, it
\* stays in that wait with the code executable and nothing revoked, so that
\* the forced termination of a run never begins before "started" was
\* consumed.
C20_NoTerminationBeforeStarted ==
    /\ pc \in {"down_interruptible", "make_nx", "kthread_stop", "drain", "make_x"}
          => signalled.started = 1
    /\ (pc # "user" /\ signalled.started = 0)
          => pc = "down" /\ made_nx = 0 /\ code_x
    /\ wpc = "up_started" => made_nx = 0 /\ code_x

\* a run is being terminated on a signal that had arrived while the
\* controller was still waiting for "started"
C20_Witness ==
    /\ pc = "kthread_stop"
    /\ made_nx = 1
    /\ sigpending
    /\ sig_at = "down"

====
